---- MODULE Spec2Model ----
(***************************************************************************)
(* LogPose service registry: the SQLite-backed RegistryStore (DbRegistry), *)
(* the HTTP server's auth middleware and handlers, and the health worker   *)
(* loop, as state machines over the four tables of the database.           *)
(***************************************************************************)
EXTENDS Integers, Sequences, FiniteSets, TLC

VARIABLES
    db,        \* the database: the four tables and the foreign-key setting
    lock,      \* holder of DbRegistry.conn (a std Mutex): "free" or a thread
    call,      \* per thread: the store call it is inside, or idle
    last,      \* the last completed operation: what was asked, what came back
    tokens,    \* per common name, the bearer token its client holds
    worker,    \* the health worker task: where it is in its cycle
    phase      \* the server process: "off", "starting" or "up"

vars == <<db, lock, call, last, tokens, worker, phase>>

----------------------------------------------------------------------------
(* Bounds of the exploration *)

\* at most this many rows in the instances table
MaxInstances == 2
\* at most this many health worker cycles are started
MaxCycles == 2
\* at most this many roles in the claims an authorization is asked for
MaxRoles == 3

----------------------------------------------------------------------------
(* Values *)

None == << >>
Some(x) == <<x>>

Codes == {"auth-svc", "pay-svc"}
Uuids == {"u1", "u2", "u3"}
CommonNames == {"admin.logpose.local", "ops.example"}

Permission == {"ServiceRead", "ServiceWrite", "InstanceRead", "InstanceWrite", "UserManage"}
Role == {"Admin", "Agent", "Viewer"}
HealthStatus == {"Healthy", "Unhealthy", "Unknown"}

Ok == "Ok"
ServiceNotFound == "ServiceNotFound"
InstanceNotFound == "InstanceNotFound"
DuplicateInstance == "DuplicateInstance"

\* a table in which the Agent may only read
permissionsAgentReadOnly(role) ==
    CASE role = "Admin" ->
            {"ServiceRead", "ServiceWrite", "InstanceRead", "InstanceWrite", "UserManage"}
      [] role = "Agent" -> {"ServiceRead", "InstanceRead"}
      [] role = "Viewer" -> {"ServiceRead", "InstanceRead"}
\* Role::permissions
permissions(role) ==
    CASE role = "Admin" ->
            {"ServiceRead", "ServiceWrite", "InstanceRead", "InstanceWrite", "UserManage"}
      [] role = "Agent" -> {"ServiceRead", "InstanceRead", "InstanceWrite"}
      [] role = "Viewer" -> {"ServiceRead", "InstanceRead"}

\* Protocol and Runtime values are tuples: the variant name, then its fields.
Http == <<"Http">>
Tcp == <<"Tcp">>
ProtocolCustom(s) == <<"Custom", s>>
RuntimeVm(provider, id) == <<"Vm", provider, id>>
RuntimeContainer(container_id) == <<"Container", container_id>>
RuntimeServerless(function_name, region) == <<"Serverless", function_name, region>>
RuntimeCustom(s) == <<"Custom", s>>

\* A text is a sequence of tokens; the token ":" is the only one holding a colon.
EmptyText == << >>
Quoted(s) == <<"\"">> \o s \o <<"\"">>

\* The set of all orders in which the elements of a finite set can be listed.
RECURSIVE Orders(_)
Orders(S) ==
    IF S = {} THEN {<< >>}
    ELSE UNION {{<<x>> \o s : s \in Orders(S \ {x})} : x \in S}

Range(s) == {s[i] : i \in DOMAIN s}

----------------------------------------------------------------------------
(* Conversions between values and the text stored in a column *)

\* format!("{:?}", protocol)
DebugProtocol(p) ==
    IF p[1] = "Custom" THEN <<"Custom", "(">> \o Quoted(p[2]) \o <<")">>
    ELSE <<p[1]>>

\* a match that knows Http only
ParseProtocolHttpOnly(text) ==
    IF text = <<"Http">> THEN text ELSE ProtocolCustom(text)

\* the match on protocol.as_str() of get_instances / get_all_instances
ParseProtocol(text) ==
    IF text \in {<<"Http">>, <<"Https">>, <<"Tcp">>, <<"Grpc">>, <<"Udp">>}
    THEN text
    ELSE ProtocolCustom(text)

DebugOption(o) ==
    IF o = None THEN <<"None">> ELSE <<"Some", "(">> \o Quoted(o[1]) \o <<")">>

\* format!("{:?}", runtime): the derived Debug of a struct-like variant
DebugRuntime(r) ==
    CASE r[1] = "Vm" ->
            <<"Vm", " { ", "provider", ":", " ">> \o DebugOption(r[2])
                \o <<", ", "id", ":", " ">> \o DebugOption(r[3]) \o <<" }">>
      [] r[1] = "Container" ->
            <<"Container", " { ", "container_id", ":", " ">> \o Quoted(r[2]) \o <<" }">>
      [] r[1] = "Serverless" ->
            <<"Serverless", " { ", "function_name", ":", " ">> \o Quoted(r[2])
                \o <<", ", "region", ":", " ">> \o DebugOption(r[3]) \o <<" }">>
      [] r[1] = "Custom" -> <<"Custom", "(">> \o Quoted(r[2]) \o <<")">>

\* runtime.split(':').next(): the text before the first colon
RECURSIVE BeforeColon(_)
BeforeColon(text) ==
    IF text = << >> \/ Head(text) = ":" THEN << >>
    ELSE <<Head(text)>> \o BeforeColon(Tail(text))

\* the match on runtime.split(':').next() of get_instances / get_all_instances
ParseRuntime(text) ==
    LET first == BeforeColon(text)
    IN  CASE first = <<"Vm">> -> RuntimeVm(None, None)
          [] first = <<"Container">> -> RuntimeContainer(EmptyText)
          [] first = <<"Serverless">> -> RuntimeServerless(EmptyText, None)
          [] OTHER -> RuntimeCustom(first)

\* format!("{:?}", health)
DebugHealth(h) == <<h>>

\* the match on health_str.as_str()
ParseHealth(text) ==
    CASE text = <<"Healthy">> -> "Healthy"
      [] text = <<"Unhealthy">> -> "Unhealthy"
      [] OTHER -> "Unknown"

\* SocketAddr::to_string and str::parse::<SocketAddr>
AddrToString(a) == <<a.ip, ":", a.port>>
ParseAddr(text) == [ip |-> text[1], port |-> text[3]]

\* Uuid::to_string and Uuid::parse_str
UuidToString(u) == <<"uuid", u>>
ParseUuid(text) == text[2]

\* serde_json::to_string of a string map: its entries, in some order
ToJson(m) == CHOOSE s \in Orders({<<k, m[k]>> : k \in DOMAIN m}) : TRUE
\* serde_json::from_str(..).unwrap_or_default()
FromJson(text) == [k \in {e[1] : e \in Range(text)} |->
                      (CHOOSE e \in Range(text) : e[1] = k)[2]]

\* the role column of identity_roles
RoleToStr(role) == <<role>>
ParseRole(text) ==
    CASE text = <<"Admin">> -> "Admin"
      [] text = <<"Agent">> -> "Agent"
      [] text = <<"Viewer">> -> "Viewer"
      [] OTHER -> "Viewer"

----------------------------------------------------------------------------
(* The database behind DbRegistry *)

\* The tables as init_tables creates them, each empty. foreign_keys is SQLite's
\* foreign-key enforcement: the schema declares the two FOREIGN KEY clauses,
\* the code never sets the pragma, so the build of SQLite linked decides it.
EmptyDb(fk) ==
    [services |-> {}, instances |-> {}, identities |-> {}, identity_roles |-> {},
     foreign_keys |-> fk]

\* What a store operation hands back: the database after it, the Result's
\* variant (Ok or the RegistryError) and the Ok payload.
Returned(d, res, val) == [db |-> d, res |-> res, val |-> val]

\* a plain INSERT into a table without the key: the old row stays
ReplaceServiceKeepingOld(table, row) == table \cup {row}
\* INSERT OR REPLACE on a table with PRIMARY KEY code: a row with the same
\* key is deleted, then the new row is inserted.
ReplaceService(table, row) == {r \in table : r.code # row.code} \cup {row}

\* a plain INSERT into a table without the key: the old row stays
ReplaceInstanceKeepingOld(table, row) == table \cup {row}
\* a replacement of the whole table by the new row
ReplaceInstanceTruncating(table, row) == {row}
\* INSERT OR REPLACE on a table with PRIMARY KEY id
ReplaceInstance(table, row) == {r \in table : r.id # row.id} \cup {row}

\* INSERT OR REPLACE on identities, PRIMARY KEY common_name
ReplaceIdentity(table, row) ==
    {r \in table : r.common_name # row.common_name} \cup {row}

\* The FOREIGN KEY(service_code) REFERENCES services(code) check of an insert
\* into instances, made when foreign keys are enforced.
InstanceFkViolated(d, row) ==
    d.foreign_keys /\ ~\E s \in d.services : s.code = row.service_code

\* The FOREIGN KEY(common_name) REFERENCES identities(common_name) check of an
\* insert into identity_roles.
RoleFkViolated(d, row) ==
    d.foreign_keys /\ ~\E i \in d.identities : i.common_name = row.common_name

ServiceRow(service) ==
    [code |-> service.code, name |-> service.name,
     description |-> service.description, metadata |-> ToJson(service.metadata)]

InstanceRow(instance) ==
    [id |-> UuidToString(instance.id),
     service_code |-> instance.service_name,
     address |-> AddrToString(instance.address),
     protocol |-> DebugProtocol(instance.protocol),
     runtime |-> DebugRuntime(instance.runtime),
     metadata |-> ToJson(instance.metadata),
     health |-> DebugHealth(instance.health)]

\* The closure of query_map in get_instances and get_all_instances: one row
\* of instances as a ServiceInstance (last_seen is not stored and reads 0).
InstanceFromRow(row) ==
    [id |-> ParseUuid(row.id),
     service_name |-> row.service_code,
     address |-> ParseAddr(row.address),
     protocol |-> ParseProtocol(row.protocol),
     runtime |-> ParseRuntime(row.runtime),
     metadata |-> FromJson(row.metadata),
     last_seen |-> 0,
     health |-> ParseHealth(row.health)]

\* Service::new and ServiceInstance::new
NewService(name, code, description) ==
    [name |-> name, code |-> code, description |-> description,
     instances |-> << >>, metadata |-> << >>]

NewInstance(id, service_name, address, protocol, runtime, last_seen) ==
    [id |-> id, service_name |-> service_name, address |-> address,
     protocol |-> protocol, runtime |-> runtime, metadata |-> << >>,
     last_seen |-> last_seen, health |-> "Unknown"]

----------------------------------------------------------------------------
(* RegistryStore for DbRegistry.  sqlerr: the statement fails in SQLite for  *)
(* a reason other than a constraint (database busy or locked by another      *)
(* process, i/o error); the operation maps it with map_err.                  *)

\* a replacement that takes the instances of the replaced service with it
add_serviceCascading(d, service, sqlerr) ==
    IF sqlerr THEN Returned(d, DuplicateInstance, None)
    ELSE Returned([d EXCEPT !.services = ReplaceService(@, ServiceRow(service)),
                            !.instances = {r \in @ : r.service_code # service.code}],
                  Ok, None)

add_service(d, service, sqlerr) ==
    IF sqlerr THEN Returned(d, DuplicateInstance, None)
    ELSE Returned([d EXCEPT !.services = ReplaceService(@, ServiceRow(service))],
                  Ok, None)

add_instance(d, instance, sqlerr) ==
    IF sqlerr \/ InstanceFkViolated(d, InstanceRow(instance))
    THEN Returned(d, DuplicateInstance, None)
    ELSE Returned([d EXCEPT !.instances = ReplaceInstance(@, InstanceRow(instance))],
                  Ok, None)

\* a lookup that answers with an empty service when the code is not stored
get_serviceOkWhenAbsent(d, code, sqlerr) ==
    Returned(d, Ok, NewService("", code, ""))
\* a lookup that fills the instances field from the instances table
get_serviceWithInstances(d, code, sqlerr) ==
    LET rows == {r \in d.services : r.code = code}
    IN  IF sqlerr \/ rows = {} THEN Returned(d, ServiceNotFound, None)
        ELSE LET row == CHOOSE r \in rows : TRUE
                 found == {r \in d.instances : r.service_code = code}
             IN  Returned(d, Ok,
                          [code |-> row.code, name |-> row.name,
                           description |-> row.description,
                           instances |-> CHOOSE o \in Orders({InstanceFromRow(r) : r \in found}) : TRUE,
                           metadata |-> FromJson(row.metadata)])
\* SELECT ... WHERE code = ?1; no row, or a failing statement, is ServiceNotFound
get_service(d, code, sqlerr) ==
    LET rows == {r \in d.services : r.code = code}
    IN  IF sqlerr \/ rows = {} THEN Returned(d, ServiceNotFound, None)
        ELSE LET row == CHOOSE r \in rows : TRUE
             IN  Returned(d, Ok,
                          [code |-> row.code, name |-> row.name,
                           description |-> row.description,
                           instances |-> << >>,
                           metadata |-> FromJson(row.metadata)])

\* a query without its WHERE clause
get_instancesAll(d, service_code, sqlerr) ==
    {Returned(d, Ok, s) : s \in Orders({InstanceFromRow(r) : r \in d.instances})}
\* The result depends on the order in which SQLite walks the rows, so the
\* operation has a set of possible returns.
get_instances(d, service_code, sqlerr) ==
    IF sqlerr THEN {Returned(d, ServiceNotFound, None)}
    ELSE {Returned(d, Ok, s) :
            s \in Orders({[InstanceFromRow(r) EXCEPT !.service_name = service_code] :
                            r \in {x \in d.instances : x.service_code = service_code}})}

get_all_instances(d, sqlerr) ==
    IF sqlerr THEN {Returned(d, ServiceNotFound, None)}
    ELSE {Returned(d, Ok, s) : s \in Orders({InstanceFromRow(r) : r \in d.instances})}

\* an UPDATE without its WHERE clause
update_instance_healthAll(d, id, health, sqlerr) ==
    IF sqlerr THEN Returned(d, InstanceNotFound, None)
    ELSE Returned([d EXCEPT !.instances =
                      {[r EXCEPT !.health = DebugHealth(health)] : r \in @}],
                  Ok, None)
\* an UPDATE that only fills in a health still Unknown
update_instance_healthOnce(d, id, health, sqlerr) ==
    IF sqlerr THEN Returned(d, InstanceNotFound, None)
    ELSE Returned([d EXCEPT !.instances =
                      {IF r.id = UuidToString(id) /\ r.health = DebugHealth("Unknown")
                       THEN [r EXCEPT !.health = DebugHealth(health)] ELSE r : r \in @}],
                  Ok, None)
\* UPDATE ... WHERE id = ?2 succeeds whether or not a row matches.
update_instance_health(d, id, health, sqlerr) ==
    IF sqlerr THEN Returned(d, InstanceNotFound, None)
    ELSE Returned([d EXCEPT !.instances =
                      {IF r.id = UuidToString(id)
                       THEN [r EXCEPT !.health = DebugHealth(health)] ELSE r : r \in @}],
                  Ok, None)

\* an assignment that first creates the identity it names when it is missing
add_role_to_identityCreating(d, common_name, role, sqlerr) ==
    LET row == [common_name |-> common_name, role |-> RoleToStr(role)]
        owner == IF \E r \in d.identities : r.common_name = common_name THEN {}
                 ELSE {[common_name |-> common_name, organization |-> None]}
    IN  IF sqlerr THEN Returned(d, DuplicateInstance, None)
        ELSE Returned([d EXCEPT !.identities = @ \cup owner,
                                !.identity_roles = @ \cup {row}],
                      Ok, None)

\* an assignment that replaces the roles the identity held
add_role_to_identityReplacing(d, common_name, role, sqlerr) ==
    LET row == [common_name |-> common_name, role |-> RoleToStr(role)]
    IN  IF sqlerr \/ RoleFkViolated(d, row)
        THEN Returned(d, DuplicateInstance, None)
        ELSE Returned([d EXCEPT !.identity_roles =
                          {r \in @ : r.common_name # common_name} \cup {row}],
                      Ok, None)
\* INSERT OR REPLACE INTO identity_roles, PRIMARY KEY(common_name, role)
add_role_to_identity(d, common_name, role, sqlerr) ==
    LET row == [common_name |-> common_name, role |-> RoleToStr(role)]
    IN  IF sqlerr \/ RoleFkViolated(d, row)
        THEN Returned(d, DuplicateInstance, None)
        ELSE Returned([d EXCEPT !.identity_roles = @ \cup {row}], Ok, None)

get_identity(d, common_name, sqlerr) ==
    LET rows == {r \in d.identities : r.common_name = common_name}
    IN  IF sqlerr \/ rows = {} THEN {Returned(d, ServiceNotFound, None)}
        ELSE LET row == CHOOSE r \in rows : TRUE
             IN  {Returned(d, Ok,
                           [common_name |-> row.common_name,
                            organization |-> row.organization,
                            roles |-> s]) :
                     s \in {[i \in DOMAIN o |-> ParseRole(o[i].role)] :
                               o \in Orders({r \in d.identity_roles :
                                               r.common_name = common_name})}}

\* add_identity holds the connection across two statements and then calls
\* add_role_to_identity for each role.  Its two statements: the upsert of the
\* identities row, then the DELETE of the identity's roles.  failAt is the
\* statement that fails in SQLite (1 or 2), or 0.
\* an add_identity that upserts the row and leaves the roles for later
add_identityStatementsKeepingRoles(d, identity, failAt) ==
    LET upserted ==
            [d EXCEPT !.identities =
                ReplaceIdentity(@, [common_name |-> identity.common_name,
                                    organization |-> identity.organization,
                                    metadata |-> << >>])]
    IN  CASE failAt = 1 -> Returned(d, DuplicateInstance, None)
          [] failAt = 2 -> Returned(upserted, DuplicateInstance, None)
          [] OTHER -> Returned(upserted, Ok, None)

add_identityStatements(d, identity, failAt) ==
    LET upserted ==
            [d EXCEPT !.identities =
                ReplaceIdentity(@, [common_name |-> identity.common_name,
                                    organization |-> identity.organization,
                                    metadata |-> << >>])]
        cleared ==
            [upserted EXCEPT !.identity_roles =
                {r \in @ : r.common_name # identity.common_name}]
    IN  CASE failAt = 1 -> Returned(d, DuplicateInstance, None)
          [] failAt = 2 -> Returned(upserted, DuplicateInstance, None)
          [] OTHER -> Returned(cleared, Ok, None)

----------------------------------------------------------------------------
(* Callers of the store *)

Threads == {"main", "task"}

NoIdentity == [common_name |-> "", organization |-> None, roles |-> << >>]
Idle == [pc |-> "idle", identity |-> NoIdentity]
AllIdle == ("main" :> Idle) @@ ("task" :> Idle)

\* What `last` holds after DbRegistry::new
Opened ==
    [op |-> "new", arg |-> "", sqlerr |-> FALSE, hit |-> FALSE, res |-> Ok, val |-> None]
\* op was called with arg, SQLite did or did not fail, and r came back; hit says
\* whether a row with the key the call names was stored when it was made
Completed(op, arg, sqlerr, hit, r) ==
    [op |-> op, arg |-> arg, sqlerr |-> sqlerr, hit |-> hit, res |-> r.res,
     val |-> r.val]

HasService(d, code) == \E r \in d.services : r.code = code
HasInstance(d, id) == \E r \in d.instances : r.id = UuidToString(id)
HasIdentity(d, common_name) == \E r \in d.identities : r.common_name = common_name
HasRole(d, common_name, role) ==
    \E r \in d.identity_roles : r.common_name = common_name /\ r.role = RoleToStr(role)

\* a token is its claims and the key that signed it; no client holds one yet
NoClaims == [sub |-> "", roles |-> << >>, exp |-> 0]
NoToken == [claims |-> NoClaims, key |-> ""]
NoTokens == ("admin.logpose.local" :> NoToken) @@ ("ops.example" :> NoToken)

\* The health worker task: where its loop stands (pc), the instances of its
\* snapshot still to visit, the health of the probe just made, the cycles begun
\* since the process started; and of the current cycle, the ids of the snapshot,
\* each probe's outcome, the write-backs made in order and the ids whose
\* write-back failed.
WorkerIdle ==
    [pc |-> "tick", instances |-> << >>, health |-> "Unknown", cycle |-> 0,
     snapshot |-> {}, probed |-> {}, written |-> << >>, failed |-> {}]

\* A fresh database file opened by DbRegistry::new
Init ==
    /\ \E fk \in BOOLEAN : db = EmptyDb(fk)
    /\ lock = "free"
    /\ call = AllIdle
    /\ last = Opened
    /\ tokens = NoTokens
    /\ worker = WorkerIdle
    /\ phase = "off"

\* a lock that is granted whoever holds the connection
CanLockHeld == TRUE
\* self.conn.lock().unwrap() returns at once: the mutex is free and not poisoned
CanLock == lock = "free"

----------------------------------------------------------------------------
(* The operations on services and instances, each one statement under the lock *)

EnvMeta == "env" :> "prod"

AuthService == NewService("Auth Service", "auth-svc", "Handles user authentication")

ServiceInputs ==
    {AuthService,
     [NewService("Auth v2", "auth-svc", "Rewritten") EXCEPT !.metadata = EnvMeta],
     NewService("Payments", "pay-svc", "Takes payments")}

Addr1 == [ip |-> "127.0.0.1", port |-> "9999"]

\* instances as ServiceInstance::new makes them (health Unknown)
InstanceInputs ==
    {NewInstance(id, c, Addr1, Http, RuntimeContainer(<<"abc">>), 0) :
        id \in Uuids, c \in Codes}

AddService(service) ==
    /\ CanLock
    /\ \E sqlerr \in BOOLEAN :
          LET r == add_service(db, service, sqlerr)
          IN  /\ db' = r.db
              /\ last' = Completed("add_service", service, sqlerr,
                                       HasService(db, service.code), r)
    /\ UNCHANGED <<lock, call, tokens, worker, phase>>

AddInstance(instance) ==
    /\ CanLock
    /\ \/ \E r \in db.instances : r.id = UuidToString(instance.id)
       \/ Cardinality(db.instances) < MaxInstances
    /\ \E sqlerr \in BOOLEAN :
          LET r == add_instance(db, instance, sqlerr)
          IN  /\ db' = r.db
              /\ last' = Completed("add_instance", instance, sqlerr,
                                       HasInstance(db, instance.id), r)
    /\ UNCHANGED <<lock, call, tokens, worker, phase>>

GetService(code) ==
    /\ CanLock
    /\ \E sqlerr \in BOOLEAN :
          LET r == get_service(db, code, sqlerr)
          IN  /\ db' = r.db
              /\ last' = Completed("get_service", code, sqlerr, HasService(db, code), r)
    /\ UNCHANGED <<lock, call, tokens, worker, phase>>

GetInstances(service_code) ==
    /\ CanLock
    /\ \E sqlerr \in BOOLEAN :
          \E r \in get_instances(db, service_code, sqlerr) :
              /\ db' = r.db
              /\ last' = Completed("get_instances", service_code, sqlerr,
                                   HasService(db, service_code), r)
    /\ UNCHANGED <<lock, call, tokens, worker, phase>>

GetAllInstances ==
    /\ CanLock
    /\ \E sqlerr \in BOOLEAN :
          \E r \in get_all_instances(db, sqlerr) :
              /\ db' = r.db
              /\ last' = Completed("get_all_instances", "", sqlerr, FALSE, r)
    /\ UNCHANGED <<lock, call, tokens, worker, phase>>

UpdateInstanceHealth(id, health) ==
    /\ CanLock
    /\ \E sqlerr \in BOOLEAN :
          LET r == update_instance_health(db, id, health, sqlerr)
          IN  /\ db' = r.db
              /\ last' = Completed("update_instance_health", <<id, health>>, sqlerr,
                                       HasInstance(db, id), r)
    /\ UNCHANGED <<lock, call, tokens, worker, phase>>

Next ==
    \/ \E service \in ServiceInputs : AddService(service)
    \/ \E instance \in InstanceInputs : AddInstance(instance)
    \/ \E code \in Codes : GetService(code)
    \/ \E code \in Codes : GetInstances(code)
    \/ GetAllInstances
    \/ \E id \in Uuids, health \in HealthStatus : UpdateInstanceHealth(id, health)

Spec == Init /\ [][Next]_vars

----------------------------------------------------------------------------
(* The operations on identities and roles *)

IdentityInputs ==
    {[common_name |-> cn, organization |-> org, roles |-> roles] :
        cn \in CommonNames,
        org \in {None, Some(<<"LogPose">>)},
        roles \in {<< >>, <<"Viewer">>, <<"Admin", "Admin">>}}

\* add_identity up to the loop over the roles: it takes the lock, runs its two
\* statements, and returns early (dropping the guard) when one of them fails.
AddIdentityBegin(t, identity) ==
    /\ CanLock
    /\ call[t] = Idle
    /\ \E failAt \in 0..2 :
          LET r == add_identityStatements(db, identity, failAt)
          IN  /\ db' = r.db
              /\ IF r.res = Ok
                 THEN /\ lock' = t
                      /\ call' = [call EXCEPT ![t] = [pc |-> "roles", identity |-> identity]]
                      /\ last' = last
                 ELSE /\ last' = Completed("add_identity", identity, failAt # 0,
                                            HasIdentity(db, identity.common_name), r)
                      /\ UNCHANGED <<lock, call>>
    /\ UNCHANGED <<tokens, worker, phase>>

\* The loop over an empty role list: Ok(()) and the guard is dropped.
AddIdentityReturn(t) ==
    /\ call[t].pc = "roles"
    /\ call[t].identity.roles = << >>
    /\ lock' = "free"
    /\ call' = [call EXCEPT ![t] = Idle]
    /\ last' = Completed("add_identity", call[t].identity, FALSE, TRUE,
                         Returned(db, Ok, None))
    /\ UNCHANGED <<db, tokens, worker, phase>>

\* The loop's first iteration: self.add_role_to_identity(..) locks self.conn
\* while this thread still holds it.  std::sync::Mutex leaves that unspecified:
\* the call does not return, it blocks for ever or it panics.  A panic unwinds
\* through the guard, which poisons the mutex and releases it.
AddIdentityRelock(t) ==
    /\ call[t].pc = "roles"
    /\ call[t].identity.roles # << >>
    /\ \/ /\ call' = [call EXCEPT ![t].pc = "deadlock"]
          /\ lock' = lock
       \/ /\ call' = [call EXCEPT ![t].pc = "panic"]
          /\ lock' = "poisoned"
    /\ UNCHANGED <<db, last, tokens, worker, phase>>

AddRoleToIdentity(common_name, role) ==
    /\ CanLock
    /\ \E sqlerr \in BOOLEAN :
          LET r == add_role_to_identity(db, common_name, role, sqlerr)
          IN  /\ db' = r.db
              /\ last' = Completed("add_role_to_identity", <<common_name, role>>, sqlerr,
                                       HasRole(db, common_name, role), r)
    /\ UNCHANGED <<lock, call, tokens, worker, phase>>

GetIdentity(common_name) ==
    /\ CanLock
    /\ \E sqlerr \in BOOLEAN :
          \E r \in get_identity(db, common_name, sqlerr) :
              /\ db' = r.db
              /\ last' = Completed("get_identity", common_name, sqlerr,
                                   HasIdentity(db, common_name), r)
    /\ UNCHANGED <<lock, call, tokens, worker, phase>>

\* The process ends (it hung and was killed, or it panicked) and the program
\* is started again on the same database file: DbRegistry::new makes a new
\* mutex, init_tables finds the tables in place.
Restart ==
    /\ lock # "free"
    /\ lock' = "free"
    /\ call' = AllIdle
    /\ last' = Opened
    /\ UNCHANGED <<db, tokens, worker, phase>>

NextIdentity ==
    \/ \E identity \in IdentityInputs : AddIdentityBegin("main", identity)
    \/ AddIdentityReturn("main")
    \/ AddIdentityRelock("main")
    \/ \E cn \in CommonNames, role \in {"Admin", "Viewer"} : AddRoleToIdentity(cn, role)
    \/ \E cn \in CommonNames : GetIdentity(cn)
    \/ AddService(AuthService)
    \/ \E code \in Codes : GetService(code)
    \/ Restart

SpecIdentity == Init /\ [][NextIdentity]_vars

----------------------------------------------------------------------------
(* The HTTP server: tokens, the auth middleware and the handlers *)

\* exp of get_token's claims, 10000000000 s, counted here in units of 10^9 s
TokenExp == 10
\* the clock when a request is validated: before that expiry
Now == TokenExp - 8
\* state.jwt_secret
JwtSecret == "super-secret-key"

AdminCn == "admin.logpose.local"
AdminIdentity ==
    [common_name |-> AdminCn, organization |-> Some(<<"LogPose">>), roles |-> <<"Admin">>]

\* jsonwebtoken::encode with EncodingKey::from_secret(key)
encode(claims, key) == [claims |-> claims, key |-> key]

\* jsonwebtoken::decode with Validation::new(HS256): the signature must be the
\* secret's and exp must not have passed
decode(token, key, now) ==
    IF token.key = key /\ token.claims.exp >= now THEN Some(token.claims) ELSE None

\* path.starts_with(prefix), a path being its segments
StartsWith(path, prefix) ==
    Len(path) >= Len(prefix) /\ SubSeq(path, 1, Len(prefix)) = prefix

TokenPath == <<"/api", "/auth", "/token">>
ServicesPath == <<"/api", "/services">>
DiscoverPath(code) == <<"/api", "/discover", code>>
InstancesPath(code) == <<"/api", "/services", code, "/instances">>
HealthUpdatePath(id) == <<"/api", "/instances", id, "/health">>

\* the paths auth_middleware lets through without a token
Exempt(path) ==
    \/ path = TokenPath
    \/ path = <<"/health">>
    \/ path = <<"/metrics">>
    \/ StartsWith(path, <<"/swagger-ui">>)
    \/ StartsWith(path, <<"/api-docs">>)

Rejected == [pass |-> FALSE, claims |-> None]
\* a middleware that runs every request, validating nothing
auth_middlewareNoCheck(req, now) ==
    IF req.auth = None THEN [pass |-> TRUE, claims |-> Some(NoClaims)]
    ELSE [pass |-> TRUE, claims |-> Some(req.auth[1].claims)]
\* auth_middleware: Err(401), or next.run(req) with the claims it put in the
\* request's extensions (none on an exempt path)
auth_middleware(req, now) ==
    IF Exempt(req.path) THEN [pass |-> TRUE, claims |-> None]
    ELSE IF req.auth = None THEN Rejected
    ELSE LET token_data == decode(req.auth[1], JwtSecret, now)
         IN  IF token_data = None THEN Rejected
             ELSE [pass |-> TRUE, claims |-> token_data]

\* a check that is content with any role at all
has_permissionAnyRole(claims, required) == claims.roles # << >>
\* claims.roles.iter().any(|role| role.permissions().contains(&required))
has_permission(claims, required) ==
    \E i \in DOMAIN claims.roles : required \in permissions(claims.roles[i])

\* the Router: the handler of a method and path
Route(req) ==
    CASE req.path = <<"/health">> /\ req.method = "GET" -> "health_check"
      [] req.path = <<"/metrics">> /\ req.method = "GET" -> "metrics"
      [] StartsWith(req.path, <<"/swagger-ui">>) /\ req.method = "GET" -> "swagger_ui"
      [] req.path = <<"/api-docs", "/openapi.json">> /\ req.method = "GET" -> "openapi"
      [] req.path = TokenPath /\ req.method = "POST" -> "get_token"
      [] req.path = ServicesPath /\ req.method = "GET" -> "list_services"
      [] req.path = ServicesPath /\ req.method = "POST" -> "register_service"
      [] Len(req.path) = 3 /\ StartsWith(req.path, <<"/api", "/discover">>)
            /\ req.method = "GET" -> "discover_service"
      [] Len(req.path) = 4 /\ StartsWith(req.path, ServicesPath)
            /\ req.path[4] = "/instances" /\ req.method = "GET" -> "list_instances"
      [] Len(req.path) = 4 /\ StartsWith(req.path, <<"/api", "/instances">>)
            /\ req.path[4] = "/health" /\ req.method = "POST" -> "update_health"
      [] OTHER -> "not_found"

\* What a handler answers: the database after it, the status, the body, and the
\* store operations it invoked.
Answer(d, status, body, store) ==
    [db |-> d, status |-> status, body |-> body, store |-> store]

\* a handler that issues a token without roles to a common_name it does not know
get_tokenForAnyone(d, payload, sqlerr) ==
    {IF r.res = Ok
     THEN Answer(d, 200,
                 encode([sub |-> r.val.common_name, roles |-> r.val.roles,
                         exp |-> TokenExp], JwtSecret),
                 <<"get_identity">>)
     ELSE Answer(d, 200,
                 encode([sub |-> payload.common_name, roles |-> << >>,
                         exp |-> TokenExp], JwtSecret),
                 <<"get_identity">>) :
         r \in get_identity(d, payload.common_name, sqlerr)}

get_token(d, payload, sqlerr) ==
    {IF r.res = Ok
     THEN Answer(d, 200,
                 encode([sub |-> r.val.common_name, roles |-> r.val.roles,
                         exp |-> TokenExp], JwtSecret),
                 <<"get_identity">>)
     ELSE Answer(d, 401, "Identity not found", <<"get_identity">>) :
         r \in get_identity(d, payload.common_name, sqlerr)}

list_services(d, claims) ==
    IF ~has_permission(claims, "ServiceRead")
    THEN Answer(d, 403, "Insufficient permissions", << >>)
    ELSE Answer(d, 200, "List of services", << >>)

\* a handler that looks up the roles now stored for the token's subject
register_serviceStoredRoles(d, claims, payload, sqlerr) ==
    IF ~\E r \in d.identity_roles :
            /\ r.common_name = claims.sub
            /\ "ServiceWrite" \in permissions(ParseRole(r.role))
    THEN Answer(d, 403, "Insufficient permissions", << >>)
    ELSE LET service == NewService(payload.name, payload.code, payload.description)
             r == add_service(d, service, sqlerr)
         IN  IF r.res = Ok
             THEN Answer(r.db, 201, "Service registered", <<"add_service">>)
             ELSE Answer(r.db, 500, "Failed", <<"add_service">>)

register_service(d, claims, payload, sqlerr) ==
    IF ~has_permission(claims, "ServiceWrite")
    THEN Answer(d, 403, "Insufficient permissions", << >>)
    ELSE LET service == NewService(payload.name, payload.code, payload.description)
             r == add_service(d, service, sqlerr)
         IN  IF r.res = Ok
             THEN Answer(r.db, 201, "Service registered", <<"add_service">>)
             ELSE Answer(r.db, 500, "Failed", <<"add_service">>)

\* discover_service and list_instances have the same body
discover_service(d, code, sqlerr) ==
    {IF r.res = Ok
     THEN Answer(d, 200, r.val, <<"get_instances">>)
     ELSE Answer(d, 404, "Service not found", <<"get_instances">>) :
         r \in get_instances(d, code, sqlerr)}

\* uuid::Uuid::parse_str(&id) of the path segment
ParsesAsUuid(id) == id \in Uuids

\* update_health takes State, Path and Json only: it never sees the claims
update_health(d, id, payload, sqlerr) ==
    IF ~ParsesAsUuid(id) THEN Answer(d, 400, "Invalid ID", << >>)
    ELSE LET r == update_instance_health(d, id, payload.status, sqlerr)
         IN  IF r.res = Ok
             THEN Answer(r.db, 200, "Updated", <<"update_instance_health">>)
             ELSE Answer(r.db, 500, "Failed", <<"update_instance_health">>)

\* The answers the routed handler can give.  A handler that extracts
\* Extension<Claims> answers 500 when the middleware put none.
Handle(d, req, ext, sqlerr) ==
    LET h == Route(req)
        claims == IF ext = None THEN NoClaims ELSE ext[1]
    IN  CASE h \in {"health_check", "metrics", "swagger_ui", "openapi"} ->
                {Answer(d, 200, "OK", << >>)}
          [] h = "get_token" -> get_token(d, req.body, sqlerr)
          [] h \in {"list_services", "register_service"} /\ ext = None ->
                {Answer(d, 500, "Missing request extension", << >>)}
          [] h = "list_services" -> {list_services(d, claims)}
          [] h = "register_service" -> {register_service(d, claims, req.body, sqlerr)}
          [] h \in {"discover_service", "list_instances"} ->
                discover_service(d, req.path[3], sqlerr)
          [] h = "update_health" ->
                {update_health(d, req.path[3], req.body, sqlerr)}
          [] OTHER -> {Answer(d, 404, "", << >>)}

\* what `last` holds after a request: the request, the handler that ran (or
\* "none") with the store operations it invoked, and the status answered
Responded(req, handler, sqlerr, a) ==
    [op |-> "http", arg |-> req, sqlerr |-> sqlerr, hit |-> FALSE,
     res |-> a.status, val |-> a.body, handler |-> handler, store |-> a.store]

HttpRequest(req) ==
    /\ phase = "up"
    /\ \E sqlerr \in BOOLEAN :
          LET m == auth_middleware(req, Now)
          IN  IF ~m.pass
              THEN /\ last' = Responded(req, "none", FALSE,
                                        Answer(db, 401, "", << >>))
                   /\ UNCHANGED <<db, tokens>>
              ELSE \E a \in Handle(db, req, m.claims, sqlerr) :
                      /\ db' = a.db
                      /\ last' = Responded(req, Route(req), sqlerr, a)
                      /\ tokens' = IF Route(req) = "get_token" /\ a.status = 200
                                   THEN [tokens EXCEPT ![req.body.common_name] = a.body]
                                   ELSE tokens
    /\ UNCHANGED <<lock, call, worker, phase>>


(* The server process: start, seeding of the admin identity, serving *)

\* DbRegistry::new opened the database; main is about to seed
ServerStart ==
    /\ phase = "off"
    /\ phase' = "starting"
    /\ lock' = "free"
    /\ call' = AllIdle
    /\ UNCHANGED <<db, last, tokens, worker>>

\* registry.get_identity(admin_cn).is_err() is false: main goes on to serve
ServerSeedSkip ==
    /\ phase = "starting" /\ CanLock /\ call["main"] = Idle
    /\ \E sqlerr \in BOOLEAN : \E r \in get_identity(db, AdminCn, sqlerr) :
          r.res = Ok
    /\ phase' = "up"
    /\ UNCHANGED <<db, lock, call, last, tokens, worker>>

\* it is true: main calls add_identity(&admin); .expect panics on Err
ServerSeedAdmin ==
    /\ phase = "starting" /\ CanLock /\ call["main"] = Idle
    /\ \E sqlerr \in BOOLEAN : \E r \in get_identity(db, AdminCn, sqlerr) :
          r.res # Ok
    /\ \E failAt \in 0..2 :
          LET r == add_identityStatements(db, AdminIdentity, failAt)
          IN  /\ db' = r.db
              /\ IF r.res = Ok
                 THEN /\ lock' = "main"
                      /\ call' = [call EXCEPT !["main"] =
                                     [pc |-> "roles", identity |-> AdminIdentity]]
                      /\ phase' = phase
                 ELSE /\ phase' = "off"
                      /\ UNCHANGED <<lock, call>>
    /\ UNCHANGED <<last, tokens, worker>>

\* the process is stopped (or has panicked) and its memory is gone; the
\* database file and the tokens the clients hold stay
ServerStop ==
    /\ phase # "off"
    /\ phase' = "off"
    /\ lock' = "free"
    /\ call' = AllIdle
    /\ worker' = WorkerIdle
    /\ UNCHANGED <<db, last, tokens>>

(* The logpose command, another process on the same database file *)

CliDone(what) ==
    [op |-> "cli", arg |-> what, sqlerr |-> FALSE, hit |-> FALSE, res |-> Ok,
     val |-> None]

\* identity add: add_identity with roles vec![Role::Viewer]; the statements
\* run, then the command blocks on its own lock
CliIdentityAdd(cn, org) ==
    /\ \E failAt \in 0..2 :
          db' = add_identityStatements(
                    db, [common_name |-> cn, organization |-> org,
                         roles |-> <<"Viewer">>], failAt).db
    /\ last' = CliDone("identity add")
    /\ UNCHANGED <<lock, call, tokens, worker, phase>>

\* identity assign-role
CliAssignRole(cn, role) ==
    /\ \E sqlerr \in BOOLEAN : db' = add_role_to_identity(db, cn, role, sqlerr).db
    /\ last' = CliDone("identity assign-role")
    /\ UNCHANGED <<lock, call, tokens, worker, phase>>

\* instance add: a ServiceInstance::new with a fresh Uuid::new_v4()
CliInstanceAdd(id, service, address) ==
    /\ ~HasInstance(db, id)
    /\ Cardinality(db.instances) < MaxInstances
    /\ \E sqlerr \in BOOLEAN :
          db' = add_instance(db, NewInstance(id, service, address, Http,
                                             RuntimeCustom(<<"manual">>), 0),
                             sqlerr).db
    /\ last' = CliDone("instance add")
    /\ UNCHANGED <<lock, call, tokens, worker, phase>>

(* The requests the clients send *)

\* a token signed with another secret, one of this secret that has expired,
\* and text that is no token at all
ForgedToken ==
    encode([sub |-> AdminCn, roles |-> <<"Admin">>, exp |-> TokenExp], "guess")
ExpiredToken ==
    encode([sub |-> AdminCn, roles |-> <<"Admin">>, exp |-> Now - 1], JwtSecret)
Malformed == encode(NoClaims, "")

HeldTokens == {tokens[cn] : cn \in {c \in CommonNames : tokens[c] # NoToken}}
Authorizations ==
    {None} \cup {Some(t) : t \in {ForgedToken, ExpiredToken, Malformed} \cup HeldTokens}

Request(method, path, auth, body) ==
    [method |-> method, path |-> path, auth |-> auth, body |-> body]

RegisterBody ==
    [name |-> "Auth Service", code |-> "auth-svc",
     description |-> "Handles user authentication"]

Requests ==
    {Request("POST", TokenPath, None, [common_name |-> cn]) : cn \in CommonNames}
    \cup {Request("GET", p, a, "") :
            p \in {<<"/health">>, <<"/swagger-ui", "/index.html">>},
            a \in {None, Some(ForgedToken)}}
    \cup {Request("GET", p, None, "") :
            p \in {<<"/metrics">>, <<"/api-docs", "/openapi.json">>}}
    \cup {Request("GET", p, a, "") :
            p \in {ServicesPath, DiscoverPath("auth-svc"), InstancesPath("auth-svc")},
            a \in {None} \cup {Some(t) : t \in HeldTokens}}
    \cup {Request("POST", ServicesPath, a, RegisterBody) : a \in Authorizations}
    \cup {Request("POST", HealthUpdatePath("u1"), a, [status |-> h]) :
            h \in {"Healthy", "Unhealthy"}, a \in Authorizations}
    \cup {Request("POST", HealthUpdatePath("not-a-uuid"), a, [status |-> "Healthy"]) :
            a \in {Some(t) : t \in HeldTokens}}

NextServer ==
    \/ ServerStart
    \/ ServerSeedSkip
    \/ ServerSeedAdmin
    \/ AddIdentityRelock("main")
    \/ ServerStop
    \/ CliIdentityAdd("ops.example", None)
    \/ \E r \in {<<AdminCn, "Admin">>, <<"ops.example", "Viewer">>} :
          CliAssignRole(r[1], r[2])
    \/ CliInstanceAdd("u1", "auth-svc", Addr1)
    \/ \E req \in Requests : HttpRequest(req)

SpecServer == Init /\ [][NextServer]_vars

----------------------------------------------------------------------------
(* The health worker spawned by main: every tick, one cycle over a snapshot *)

\* what tokio::time::timeout(2 s, TcpStream::connect(addr)) can come to
ConnectOutcomes == {"connected", "refused", "timeout"}

\* a probe that takes a timeout for a connection
check_healthTimeoutHealthy(outcome) ==
    IF outcome = "refused" THEN "Unhealthy" ELSE "Healthy"
\* Ok(Ok(_)) => Healthy, _ => Unhealthy
check_health(outcome) ==
    IF outcome = "connected" THEN "Healthy" ELSE "Unhealthy"

\* `last` after the worker's get_all_instances
Snapshot(sqlerr, r) ==
    [op |-> "worker", arg |-> "", sqlerr |-> sqlerr, hit |-> FALSE,
     res |-> r.res, val |-> None]

\* a snapshot taken on the timer wherever the loop stands
WorkerSnapshotAnytime ==
    /\ phase = "up" /\ CanLock
    /\ worker.cycle < MaxCycles
    /\ \E sqlerr \in BOOLEAN : \E r \in get_all_instances(db, sqlerr) :
          /\ last' = Snapshot(sqlerr, r)
          /\ worker' =
                IF r.res = Ok /\ r.val # << >>
                THEN [WorkerIdle EXCEPT !.pc = "probe", !.instances = r.val,
                                        !.cycle = worker.cycle + 1,
                                        !.snapshot = {i.id : i \in Range(r.val)}]
                ELSE [WorkerIdle EXCEPT !.cycle = worker.cycle + 1]
    /\ UNCHANGED <<db, lock, call, tokens, phase>>

\* interval.tick().await, then if let Ok(instances) = get_all_instances():
\* on Err the body is skipped and the loop waits for the next tick
WorkerSnapshot ==
    /\ phase = "up" /\ CanLock
    /\ worker.pc = "tick"
    /\ worker.cycle < MaxCycles
    /\ \E sqlerr \in BOOLEAN : \E r \in get_all_instances(db, sqlerr) :
          /\ last' = Snapshot(sqlerr, r)
          /\ worker' =
                IF r.res = Ok /\ r.val # << >>
                THEN [WorkerIdle EXCEPT !.pc = "probe", !.instances = r.val,
                                        !.cycle = worker.cycle + 1,
                                        !.snapshot = {i.id : i \in Range(r.val)}]
                ELSE [WorkerIdle EXCEPT !.cycle = worker.cycle + 1]
    /\ UNCHANGED <<db, lock, call, tokens, phase>>

\* let health = check_health(&instance.address).await
WorkerProbe ==
    /\ phase = "up"
    /\ worker.pc = "probe"
    /\ \E outcome \in ConnectOutcomes :
          worker' = [worker EXCEPT
                        !.pc = "write",
                        !.health = check_health(outcome),
                        !.probed = @ \cup {<<Head(worker.instances).id, outcome>>}]
    /\ UNCHANGED <<db, lock, call, last, tokens, phase>>

\* a write-back that ends the loop when it fails
WorkerWriteAborting ==
    /\ phase = "up" /\ CanLock
    /\ worker.pc = "write"
    /\ \E sqlerr \in BOOLEAN :
          LET instance == Head(worker.instances)
              r == update_instance_health(db, instance.id, worker.health, sqlerr)
          IN  /\ db' = r.db
              /\ worker' = [worker EXCEPT
                               !.pc = IF r.res # Ok \/ Tail(worker.instances) = << >>
                                      THEN "tick" ELSE "probe",
                               !.instances = Tail(@),
                               !.written = Append(@, <<instance.id, worker.health>>),
                               !.failed = IF r.res = Ok THEN @
                                          ELSE @ \cup {instance.id}]
    /\ UNCHANGED <<lock, call, last, tokens, phase>>
\* let _ = update_instance_health(&instance.id, health): the result is dropped
\* and the for loop takes the next instance, or ends
WorkerWrite ==
    /\ phase = "up" /\ CanLock
    /\ worker.pc = "write"
    /\ \E sqlerr \in BOOLEAN :
          LET instance == Head(worker.instances)
              r == update_instance_health(db, instance.id, worker.health, sqlerr)
          IN  /\ db' = r.db
              /\ worker' = [worker EXCEPT
                               !.pc = IF Tail(worker.instances) = << >>
                                      THEN "tick" ELSE "probe",
                               !.instances = Tail(@),
                               !.written = Append(@, <<instance.id, worker.health>>),
                               !.failed = IF r.res = Ok THEN @
                                          ELSE @ \cup {instance.id}]
    /\ UNCHANGED <<lock, call, last, tokens, phase>>

\* The worker runs beside the other callers of the store: instances being
\* added and health being reported from outside.
MonitorInstances ==
    {NewInstance(id, "auth-svc", Addr1, Http, RuntimeContainer(<<"abc">>), 0) :
        id \in {"u1", "u2"}}

NextMonitor ==
    \/ ServerStart
    \/ ServerSeedSkip
    \/ ServerSeedAdmin
    \/ AddIdentityRelock("main")
    \/ ServerStop
    \/ AddService(AuthService)
    \/ \E instance \in MonitorInstances : AddInstance(instance)
    \/ \E h \in {"Unknown", "Healthy"} : UpdateInstanceHealth("u1", h)
    \/ WorkerSnapshot
    \/ WorkerProbe
    \/ WorkerWrite

SpecMonitor == Init /\ [][NextMonitor]_vars

----------------------------------------------------------------------------
(* Properties of the store operations *)

RowsOfCode(d, code) == {r \in d.instances : r.service_code = code}
RolesOf(d, common_name) ==
    {ParseRole(r.role) : r \in {x \in d.identity_roles : x.common_name = common_name}}

\* the permission the spec asks for before each mutating store operation
WritePermission(store_op) ==
    IF store_op = "add_service" THEN "ServiceWrite" ELSE "InstanceWrite"

\* C1: a POST /api/services or POST /api/instances/:id/health request invokes
\* its store operation (add_service, update_instance_health) only if some role
\* in its token's claims grants ServiceWrite, InstanceWrite respectively; a
\* token whose only role is Viewer never gets a store write invoked.
C1_StoreWriteOnlyWithPermission ==
    (/\ last.op = "http"
     /\ last.arg.method = "POST"
     /\ last.arg.path \in {ServicesPath} \cup {HealthUpdatePath(id) : id \in Uuids}
     /\ last.store # << >>)
        => /\ last.arg.auth # None
           /\ \E i \in DOMAIN last.arg.auth[1].claims.roles :
                 WritePermission(last.store[1])
                     \in permissions(last.arg.auth[1].claims.roles[i])

\* C2: on every path other than /api/auth/token, /health, /metrics and the
\* API-docs paths, a request with no bearer token, with a token signed with
\* another secret, with an expired token or with a malformed one is answered 401,
\* no handler runs and no store operation is invoked; a request to one of those
\* paths has its handler run whether or not it carries a token.
C2_UnauthenticatedIsRejected ==
    last.op = "http" =>
        IF last.arg.path \in {TokenPath, <<"/health">>, <<"/metrics">>,
                              <<"/swagger-ui", "/index.html">>,
                              <<"/api-docs", "/openapi.json">>}
        THEN last.handler = Route(last.arg) /\ last.handler # "none"
        ELSE last.arg.auth \in {None, Some(ForgedToken), Some(ExpiredToken),
                                Some(Malformed)}
                => /\ last.res = 401
                   /\ last.handler = "none"
                   /\ last.store = << >>

\* an expired token on the health update of a stored instance was answered 401
C2_Witness ==
    /\ last.op = "http"
    /\ last.arg.path = HealthUpdatePath("u1")
    /\ last.arg.auth = Some(ExpiredToken)
    /\ HasInstance(db, "u1")
    /\ last.res = 401

\* a request without a token got a token from get_token
C2_WitnessExempt ==
    /\ last.op = "http"
    /\ last.arg.path = TokenPath
    /\ last.arg.auth = None
    /\ last.handler = "get_token"
    /\ last.res = 200

\* C3: update_instance_health(id, h) with an id that matches no stored instance
\* returns InstanceNotFound and leaves the store unchanged.
C3_UnknownIdIsInstanceNotFound ==
    [][\A id \in Uuids, h \in HealthStatus :
          (last'.op = "update_instance_health" /\ last'.arg = <<id, h>>
              /\ UpdateInstanceHealth(id, h)
              /\ ~HasInstance(db, id))
              => (last'.res = InstanceNotFound /\ db' = db)]_vars

\* C4: add_identity(I) completes with Ok for every identity I, and afterwards
\* get_identity(I.common_name) returns exactly the roles of I.roles.
C4_AddIdentityCompletesAndReplacesRoles ==
    /\ \A t \in Threads : call[t].pc \notin {"deadlock", "panic"}
    /\ (last.op = "add_identity" /\ ~last.sqlerr)
          => /\ last.res = Ok
             /\ \A r \in get_identity(db, last.arg.common_name, FALSE) :
                   r.res = Ok /\ Range(r.val.roles) = Range(last.arg.roles)

\* the health get_all_instances would report for a stored id
StoredHealth(d, id) ==
    ParseHealth((CHOOSE r \in d.instances : r.id = UuidToString(id)).health)

\* the worker stands between two cycles, having finished one
CycleDone == worker.pc = "tick" /\ worker.cycle > 0

\* C5: an instance just added as constructed has health Unknown; when a cycle of
\* the health worker is done and no other caller has used the store since its
\* snapshot, every instance of the snapshot whose write-back SQLite ran has
\* stored health Healthy if its probe connected and Unhealthy if it was refused
\* or timed out; no write-back of the worker carries Unknown.
C5_MonitorCycleSetsHealth ==
    /\ (last.op = "add_instance" /\ last.res = Ok /\ ~last.hit)
          => StoredHealth(db, last.arg.id) = "Unknown"
    /\ \A i \in DOMAIN worker.written :
          worker.written[i][2] \in {"Healthy", "Unhealthy"}
    /\ (CycleDone /\ last.op = "worker")
          => \A id \in worker.snapshot \ worker.failed :
                /\ HasInstance(db, id)
                /\ \E outcome \in ConnectOutcomes :
                      /\ <<id, outcome>> \in worker.probed
                      /\ StoredHealth(db, id) =
                            IF outcome = "connected" THEN "Healthy" ELSE "Unhealthy"

\* a cycle over two instances is done, one probe connected, one timed out
C5_Witness ==
    /\ CycleDone /\ last.op = "worker"
    /\ worker.snapshot = {"u1", "u2"} /\ worker.failed = {}
    /\ <<"u1", "timeout">> \in worker.probed
    /\ <<"u2", "connected">> \in worker.probed
    /\ StoredHealth(db, "u1") = "Unhealthy"
    /\ StoredHealth(db, "u2") = "Healthy"

\* C6: when a cycle of the health worker is done, every instance of its snapshot
\* has been probed and has had its write-back made, whichever write-backs
\* failed; a failed get_all_instances leaves the worker waiting for the next
\* tick with nothing probed; and whenever the worker waits for a tick it can
\* begin the next cycle.
C6_FailedWriteDoesNotAbortCycle ==
    /\ worker.pc \in {"tick", "probe", "write"}
    /\ CycleDone
          => /\ {p[1] : p \in worker.probed} = worker.snapshot
             /\ {worker.written[i][1] : i \in DOMAIN worker.written} = worker.snapshot
             /\ Len(worker.written) = Cardinality(worker.snapshot)
    /\ (last.op = "worker" /\ last.res # Ok)
          => worker.pc = "tick" /\ worker.probed = {} /\ worker.written = << >>
    /\ (phase = "up" /\ worker.pc = "tick" /\ worker.cycle < MaxCycles)
          => ENABLED WorkerSnapshot

\* a cycle over two instances is done: the first write-back failed, the second
\* instance was still probed and written
C6_Witness ==
    /\ CycleDone
    /\ Len(worker.written) = 2
    /\ worker.written[1][1] \in worker.failed
    /\ worker.written[2][1] \notin worker.failed
    /\ StoredHealth(db, worker.written[2][1]) = worker.written[2][2]

\* a snapshot failed while an instance was stored: nothing was probed and the
\* worker waits for its next tick
C6_WitnessSkipped ==
    /\ last.op = "worker" /\ last.res # Ok
    /\ db.instances # {}
    /\ phase = "up" /\ worker.pc = "tick" /\ worker.cycle = 1

\* C7: add_service is an upsert by code.  A call whose statement SQLite runs
\* returns Ok whether or not the code was stored; afterwards the table holds one
\* row per code, the row of this code carries the call's name, description and
\* metadata, and the rows of the other codes are as before.
C7_AddServiceUpsert ==
    [][\A s \in ServiceInputs :
          (last'.op = "add_service" /\ last'.arg = s /\ AddService(s)) =>
             IF last'.sqlerr THEN db' = db
             ELSE /\ last'.res = Ok
                  /\ Cardinality({r \in db'.services : r.code = s.code}) = 1
                  /\ Cardinality(db'.services)
                        = Cardinality({r.code : r \in db.services} \cup {s.code})
                  /\ LET got == get_service(db', s.code, FALSE)
                     IN  /\ got.res = Ok
                         /\ got.val.name = s.name
                         /\ got.val.description = s.description
                         /\ got.val.metadata = s.metadata
                  /\ {r \in db'.services : r.code # s.code}
                        = {r \in db.services : r.code # s.code}]_vars

\* a second add_service for a stored code, with another description, went through
C7_Witness ==
    /\ last.op = "add_service" /\ last.hit /\ last.res = Ok
    /\ last.arg.description = "Rewritten"
    /\ Cardinality(db.services) = 2

\* C8: add_instance is an upsert by id.  A call that returns Ok with an id already
\* stored replaces that instance and leaves the length of get_all_instances as it
\* was; with a new id the length grows by exactly one.  A call that returns an
\* error changes nothing.
C8_AddInstanceUpsert ==
    [][\A i \in InstanceInputs :
          (last'.op = "add_instance" /\ last'.arg = i /\ AddInstance(i)) =>
             IF last'.res # Ok THEN db' = db
             ELSE /\ \A a \in get_all_instances(db, FALSE),
                        b \in get_all_instances(db', FALSE) :
                        /\ Len(b.val) = Len(a.val) + (IF HasInstance(db, i.id) THEN 0 ELSE 1)
                        /\ Cardinality({k \in DOMAIN b.val : b.val[k].id = i.id}) = 1
                        /\ \A k \in DOMAIN b.val :
                              b.val[k].id = i.id =>
                                 /\ b.val[k].service_name = i.service_name
                                 /\ b.val[k].health = i.health
                                 /\ b.val[k].address = i.address
                        /\ {x \in Range(b.val) : x.id # i.id}
                              = {x \in Range(a.val) : x.id # i.id}]_vars

\* an instance was added again under its id, moved to the other service, while
\* another instance is stored
C8_Witness ==
    /\ last.op = "add_instance" /\ last.hit /\ last.res = Ok
    /\ Cardinality(db.instances) = 2
    /\ \E r \in db.instances :
          r.id = UuidToString(last.arg.id) /\ r.service_code = "pay-svc"

\* C9: get_service(code) returns ServiceNotFound exactly when no service with that
\* code is stored, get_identity(common_name) returns ServiceNotFound exactly when
\* no identity with that common_name is stored (SQLite running the query), and
\* neither changes the store.
C9_LookupFailsIffAbsent ==
    [][/\ \A code \in Codes :
             (last'.op = "get_service" /\ last'.arg = code /\ GetService(code)) =>
                /\ db' = db
                /\ ~last'.sqlerr =>
                      /\ last'.res \in {Ok, ServiceNotFound}
                      /\ last'.res = ServiceNotFound <=> ~HasService(db, code)
                      /\ last'.res = Ok => last'.val.code = code
       /\ \A cn \in CommonNames :
             (last'.op = "get_identity" /\ last'.arg = cn /\ GetIdentity(cn)) =>
                /\ db' = db
                /\ ~last'.sqlerr =>
                      /\ last'.res \in {Ok, ServiceNotFound}
                      /\ last'.res = ServiceNotFound <=> ~HasIdentity(db, cn)
                      /\ last'.res = Ok => last'.val.common_name = cn]_vars

\* get_identity failed for a name that is not stored while another identity is
C9_Witness ==
    /\ last.op = "get_identity" /\ ~last.sqlerr /\ ~last.hit
    /\ last.res = ServiceNotFound
    /\ db.identities # {}
    /\ db.services # {}

\* C10: get_instances(code), SQLite running the query, returns Ok with exactly
\* the stored instances whose service_code is code, each once, and with the empty
\* sequence when there is none.
C10_GetInstancesExact ==
    (last.op = "get_instances" /\ ~last.sqlerr) =>
        /\ last.res = Ok
        /\ Len(last.val) = Cardinality(RowsOfCode(db, last.arg))
        /\ {UuidToString(x.id) : x \in Range(last.val)}
              = {r.id : r \in RowsOfCode(db, last.arg)}
        /\ \A x \in Range(last.val) :
              /\ x.service_name = last.arg
              /\ \E r \in RowsOfCode(db, last.arg) :
                    r.id = UuidToString(x.id) /\ r.health = DebugHealth(x.health)
        /\ RowsOfCode(db, last.arg) = {} => last.val = << >>

\* get_instances returned the one instance of a service while another service
\* has an instance too
C10_Witness ==
    /\ last.op = "get_instances" /\ last.res = Ok
    /\ Len(last.val) = 1
    /\ Cardinality(db.instances) = 2

\* get_instances returned Ok and nothing for a code that has no instance
C10_WitnessEmpty ==
    /\ last.op = "get_instances" /\ last.res = Ok
    /\ last.val = << >>
    /\ db.instances # {}

----------------------------------------------------------------------------
(* Properties of the HTTP boundary *)

\* C11: GET /api/discover/:code and GET /api/services/:code/instances, when
\* their query runs, answer 404 if no service with that code is registered and
\* 200 with the instance list if one is.
C11_DiscoverUnknownCodeIs404 ==
    (/\ last.op = "http"
     /\ last.handler \in {"discover_service", "list_instances"}
     /\ ~last.sqlerr)
        => IF HasService(db, last.arg.path[3])
           THEN last.res = 200
           ELSE last.res = 404

----------------------------------------------------------------------------
(* Properties of the identity operations *)

\* C12: add_role_to_identity(cn, r) on a stored identity, when its statement
\* runs, returns Ok; afterwards the roles of cn are the roles it had plus r, the
\* identities and the roles of every other common name are as before, and the
\* same call made again changes nothing.
C12_AddRoleAdditiveIdempotent ==
    [][\A cn \in CommonNames, role \in Role :
          (/\ last'.op = "add_role_to_identity" /\ last'.arg = <<cn, role>>
           /\ AddRoleToIdentity(cn, role)
           /\ HasIdentity(db, cn) /\ ~last'.sqlerr)
              => /\ last'.res = Ok
                 /\ RolesOf(db', cn) = RolesOf(db, cn) \cup {role}
                 /\ \A other \in CommonNames \ {cn} :
                       RolesOf(db', other) = RolesOf(db, other)
                 /\ db'.identities = db.identities
                 /\ (role \in RolesOf(db, cn) => db' = db)
                 /\ add_role_to_identity(db', cn, role, FALSE).db = db']_vars

\* a second role was added to an identity that held another one
C12_Witness ==
    /\ last.op = "add_role_to_identity" /\ last.res = Ok /\ ~last.hit
    /\ HasIdentity(db, last.arg[1])
    /\ RolesOf(db, last.arg[1]) = {"Admin", "Viewer"}

\* a role the identity already held was added again
C12_WitnessAgain ==
    /\ last.op = "add_role_to_identity" /\ last.res = Ok /\ last.hit
    /\ HasIdentity(db, last.arg[1])

----------------------------------------------------------------------------
(* Resolving permissions, on its own: every role, and every list of roles a  *)
(* token can carry, against every permission                                 *)

RoleLists == UNION {[1..n -> Role] : n \in 0..MaxRoles}

\* role.permissions()
Permissions(role) ==
    /\ last' = Completed("permissions", role, FALSE, FALSE,
                         Returned(db, Ok, permissions(role)))
    /\ UNCHANGED <<db, lock, call, tokens, worker, phase>>

\* the handlers' check of the claims against the permission they require
Authorize(roles, required) ==
    /\ last' = Completed("authorize", <<roles, required>>, FALSE, FALSE,
                         Returned(db, Ok,
                                  has_permission([sub |-> AdminCn, roles |-> roles,
                                                  exp |-> TokenExp], required)))
    /\ UNCHANGED <<db, lock, call, tokens, worker, phase>>

NextAuthorize ==
    \/ \E role \in Role : Permissions(role)
    \/ \E roles \in RoleLists, required \in Permission : Authorize(roles, required)

SpecAuthorize == Init /\ [][NextAuthorize]_vars

\* C13: the set a role resolves to is Admin = {ServiceRead, ServiceWrite,
\* InstanceRead, InstanceWrite, UserManage}, Agent = {ServiceRead, InstanceRead,
\* InstanceWrite}, Viewer = {ServiceRead, InstanceRead}; so Admin's set contains
\* Agent's, which contains Viewer's.
C13_PermissionTable ==
    /\ last.op = "permissions"
          => /\ last.arg = "Admin" =>
                   last.val = {"ServiceRead", "ServiceWrite", "InstanceRead",
                               "InstanceWrite", "UserManage"}
             /\ last.arg = "Agent" =>
                   last.val = {"ServiceRead", "InstanceRead", "InstanceWrite"}
             /\ last.arg = "Viewer" => last.val = {"ServiceRead", "InstanceRead"}
    /\ permissions("Viewer") \subseteq permissions("Agent")
    /\ permissions("Agent") \subseteq permissions("Admin")
    /\ permissions("Viewer") # permissions("Agent")
    /\ permissions("Agent") # permissions("Admin")

\* the Agent's permissions were resolved
C13_Witness ==
    /\ last.op = "permissions" /\ last.arg = "Agent"
    /\ "InstanceWrite" \in last.val /\ "ServiceWrite" \notin last.val

----------------------------------------------------------------------------
(* Properties of the permission-gated endpoints and of token issuance *)

\* C14: a request to GET /api/services or POST /api/services that has passed
\* the middleware is answered 403 exactly when no role in its claims (an empty
\* list included) resolves to a set containing ServiceRead, ServiceWrite
\* respectively; a 403 comes with no store operation invoked and the store
\* unchanged.
C14_ForbiddenIffNoRoleGrants ==
    [][(/\ last'.op = "http"
        /\ last'.handler \in {"list_services", "register_service"}
        /\ HttpRequest(last'.arg))
           => LET req == last'.arg
                  roles == req.auth[1].claims.roles
                  required == IF req.method = "GET" THEN "ServiceRead"
                              ELSE "ServiceWrite"
                  granted == \E i \in DOMAIN roles :
                                 required \in permissions(roles[i])
              IN  /\ last'.res = 403 <=> ~granted
                  /\ last'.res = 403 => (last'.store = << >> /\ db' = db)]_vars

\* a Viewer's token was refused the registration of a service
C14_Witness ==
    /\ last.op = "http"
    /\ last.arg.method = "POST" /\ last.arg.path = ServicesPath
    /\ last.handler = "register_service"
    /\ last.arg.auth[1].claims.roles = <<"Viewer">>
    /\ last.res = 403

\* a token with no roles was refused the list of services
C14_WitnessNoRoles ==
    /\ last.op = "http"
    /\ last.arg.method = "GET" /\ last.arg.path = ServicesPath
    /\ last.handler = "list_services"
    /\ last.arg.auth[1].claims.roles = << >>
    /\ last.res = 403

\* C15: POST /api/auth/token, its query run by SQLite, answers 401 and issues no
\* token exactly when no identity with the requested common_name is stored;
\* otherwise it answers 200 with a token whose claims have that common_name as
\* subject and, as roles, the roles stored for the identity at that moment.
C15_TokenIffIdentityStored ==
    [][(/\ last'.op = "http"
        /\ last'.handler = "get_token"
        /\ ~last'.sqlerr
        /\ HttpRequest(last'.arg))
           => LET cn == last'.arg.body.common_name
              IN  IF ~HasIdentity(db, cn)
                  THEN /\ last'.res = 401
                       /\ last'.val = "Identity not found"
                       /\ tokens' = tokens
                  ELSE /\ last'.res = 200
                       /\ last'.val.key = JwtSecret
                       /\ last'.val.claims.sub = cn
                       /\ Range(last'.val.claims.roles) = RolesOf(db, cn)
                       /\ Len(last'.val.claims.roles) = Cardinality(RolesOf(db, cn))
                       /\ tokens'[cn] = last'.val]_vars

\* a token was issued to an identity that holds the Viewer role
C15_Witness ==
    /\ last.op = "http"
    /\ last.handler = "get_token"
    /\ ~last.sqlerr
    /\ last.res = 200
    /\ last.val.claims.sub = "ops.example"
    /\ last.val.claims.roles = <<"Viewer">>
    /\ tokens["ops.example"] = last.val

\* a token was refused to a common_name with no identity stored
C15_WitnessUnknown ==
    /\ last.op = "http"
    /\ last.handler = "get_token"
    /\ ~last.sqlerr
    /\ ~HasIdentity(db, last.arg.body.common_name)
    /\ last.res = 401

----------------------------------------------------------------------------
(* Two runs that differ in the roles stored after a token was issued *)

\* the answers to a request served over database d: the layer, then the route
Serve(d, req, sqlerr) ==
    LET m == auth_middleware(req, Now)
    IN  IF ~m.pass THEN {Answer(d, 401, "", << >>)}
        ELSE Handle(d, req, m.claims, sqlerr)

\* database d after the roles of an identity were replaced (add_identity) or
\* added to (add_role_to_identity), leaving it with the given roles
WithStoredRoles(d, common_name, roles) ==
    [d EXCEPT !.identity_roles =
        {r \in @ : r.common_name # common_name}
        \cup {[common_name |-> common_name, role |-> RoleToStr(role)] : role \in roles}]

\* a request is denied when it is answered 401 or 403
Outcome(status) == IF status \in {401, 403} THEN "deny" ELSE "allow"

\* C16: the allow/deny outcome of a request made with a token is the outcome
\* the same request gets in any run that differs only in the roles stored for
\* the token's subject since the token was issued: whatever those roles have
\* become, serving the request just answered gives the outcome it got.
C16_DecisionDependsOnTokenRolesOnly ==
    (/\ last.op = "http"
     /\ last.arg.path # TokenPath
     /\ last.arg.auth # None)
        => \A roles \in SUBSET Role :
              LET other == WithStoredRoles(db, last.arg.auth[1].claims.sub, roles)
              IN  {Outcome(a.status) : a \in Serve(other, last.arg, last.sqlerr)}
                      = {Outcome(last.res)}

\* the admin's token, issued when no role was stored, was refused the
\* registration of a service after the Admin role was assigned
C16_Witness ==
    /\ last.op = "http"
    /\ last.handler = "register_service"
    /\ last.arg.auth = Some(tokens[AdminCn])
    /\ tokens[AdminCn].claims.sub = AdminCn
    /\ tokens[AdminCn].claims.roles = << >>
    /\ HasRole(db, AdminCn, "Admin")
    /\ last.res = 403

----------------------------------------------------------------------------
(* Properties of the stored instance: what is read back, and its health *)

\* the variant tag of a protocol or of a runtime
Tag(v) == v[1]

\* C17: after add_instance has stored an instance, every instance with its id
\* that get_all_instances returns has a protocol, a runtime and a health of the
\* same variant as the instance stored.
C17_ReadBackKeepsVariantTags ==
    (/\ last.op = "add_instance"
     /\ ~last.sqlerr
     /\ last.res = Ok)
        => \A r \in get_all_instances(db, FALSE) :
              \A i \in DOMAIN r.val :
                 r.val[i].id = last.arg.id
                    => /\ Tag(r.val[i].protocol) = Tag(last.arg.protocol)
                       /\ Tag(r.val[i].runtime) = Tag(last.arg.runtime)
                       /\ r.val[i].health = last.arg.health

\* C18: once the stored health of an instance is Healthy or Unhealthy, no step
\* of the monitor, of a health update or of a store operation leaves its stored
\* health Unknown (stated for the steps other than add_instance, whose effect
\* on the health of an instance already stored is C19's).
C18_UnknownNeverComesBack ==
    [][\A id \in Uuids :
          (/\ last'.op # "add_instance"
           /\ HasInstance(db, id)
           /\ StoredHealth(db, id) \in {"Healthy", "Unhealthy"}
           /\ HasInstance(db', id))
              => StoredHealth(db', id) # "Unknown"]_vars

\* C19: the stored health of an instance already stored is changed by
\* update_instance_health only: a step of any other store operation,
\* add_instance with the same id included, leaves it as it was.
C19_OnlyHealthUpdateChangesHealth ==
    [][\A id \in Uuids :
          (/\ HasInstance(db, id)
           /\ HasInstance(db', id)
           /\ StoredHealth(db', id) # StoredHealth(db, id))
              => last'.op = "update_instance_health"]_vars

----------------------------------------------------------------------------
(* Two threads of one process calling the store: a request handler ("main") *)
(* and the health worker ("task").  An operation is a call that waits for   *)
(* the connection, the statement it runs once it holds it, and the return   *)
(* that drops the guard.                                                    *)

InstanceU1 == NewInstance("u1", "auth-svc", Addr1, Http, RuntimeContainer(<<"abc">>), 0)
OpsIdentity == [common_name |-> "ops.example", organization |-> None, roles |-> << >>]

\* the calls the threads make: the operation and its arguments
StoreCalls ==
    {<<"add_service", AuthService>>,
     <<"add_instance", InstanceU1>>,
     <<"update_instance_health", <<"u1", "Healthy">>>>,
     <<"update_instance_health", <<"u1", "Unhealthy">>>>,
     <<"get_all_instances", "">>,
     <<"get_identity", AdminCn>>}

\* a thread in a single-statement operation
InCall(pc, op, arg, sqlerr, r) ==
    [pc |-> pc, identity |-> NoIdentity, op |-> op, arg |-> arg,
     sqlerr |-> sqlerr, res |-> r.res, val |-> r.val]

\* the statement of an operation run over database d
Statement(d, op, arg, sqlerr) ==
    CASE op = "add_service" -> {add_service(d, arg, sqlerr)}
      [] op = "add_instance" -> {add_instance(d, arg, sqlerr)}
      [] op = "update_instance_health" ->
            {update_instance_health(d, arg[1], arg[2], sqlerr)}
      [] op = "get_all_instances" -> get_all_instances(d, sqlerr)
      [] op = "get_identity" -> get_identity(d, arg, sqlerr)

\* the operation is called: the thread is at self.conn.lock()
Call(t, op, arg) ==
    /\ call[t] = Idle
    /\ lock # "poisoned"
    /\ call' = [call EXCEPT ![t] = InCall("waiting", op, arg, FALSE, Returned(db, Ok, None))]
    /\ UNCHANGED <<db, lock, last, tokens, worker, phase>>

\* lock() returns the guard
Acquire(t) ==
    /\ call[t].pc = "waiting"
    /\ CanLock
    /\ lock' = t
    /\ call' = [call EXCEPT ![t].pc = "locked"]
    /\ UNCHANGED <<db, last, tokens, worker, phase>>

\* conn.execute / conn.prepare and query_map under the guard
Execute(t) ==
    /\ call[t].pc = "locked"
    /\ \E sqlerr \in BOOLEAN :
          \E r \in Statement(db, call[t].op, call[t].arg, sqlerr) :
              /\ db' = r.db
              /\ call' = [call EXCEPT ![t] =
                             InCall("executed", call[t].op, call[t].arg, sqlerr, r)]
    /\ UNCHANGED <<lock, last, tokens, worker, phase>>

\* the operation returns and its guard is dropped
Return(t) ==
    /\ call[t].pc = "executed"
    /\ lock' = "free"
    /\ call' = [call EXCEPT ![t] = Idle]
    /\ last' = [op |-> call[t].op, arg |-> call[t].arg, sqlerr |-> call[t].sqlerr,
                hit |-> FALSE, res |-> call[t].res, val |-> call[t].val]
    /\ UNCHANGED <<db, tokens, worker, phase>>

NextConcurrent ==
    \/ \E t \in Threads, c \in StoreCalls : Call(t, c[1], c[2])
    \/ \E t \in Threads : Acquire(t)
    \/ \E t \in Threads : Execute(t)
    \/ \E t \in Threads : Return(t)
    \/ \E t \in Threads, identity \in {AdminIdentity, OpsIdentity} :
          AddIdentityBegin(t, identity)
    \/ \E t \in Threads : AddIdentityReturn(t)
    \/ \E t \in Threads : AddIdentityRelock(t)
    \/ Restart

SpecConcurrent == Init /\ [][NextConcurrent]_vars

\* the thread holds the connection: it is between lock() and the drop of its guard
Inside(t) == call[t].pc \in {"locked", "executed", "roles", "deadlock"}

\* C20: at most one thread is inside a store operation at any time, the one
\* that holds the lock; a step that runs a statement of an operation (one that
\* reads or writes the database) is a step of that thread, taken while no other
\* thread is inside an operation, so that the writes an operation has made so
\* far are seen and followed by its own statements only.
C20_StoreOperationsMutuallyExclusive ==
    /\ [](\A t \in Threads : Inside(t) => (lock = t /\ \A o \in Threads \ {t} : ~Inside(o)))
    /\ [][(\/ db' # db
           \/ \E t \in Threads : call[t].pc = "locked" /\ call'[t].pc = "executed"
           \/ \E t \in Threads : call[t] = Idle /\ call'[t].pc = "roles")
              => \E t \in Threads :
                    /\ lock \in {t, "free"}
                    /\ lock = "free" => call[t] = Idle
                    /\ \A o \in Threads \ {t} : ~Inside(o) /\ call'[o] = call[o]]_vars

\* the worker waits for the connection while a handler is inside add_identity,
\* the identity's roles deleted and not yet added again
C20_Witness ==
    /\ lock = "main"
    /\ call["main"].pc = "roles"
    /\ call["main"].identity = AdminIdentity
    /\ HasIdentity(db, AdminCn) /\ RolesOf(db, AdminCn) = {}
    /\ call["task"].pc = "waiting"
    /\ call["task"].op = "get_identity"

----------------------------------------------------------------------------
(* The threads under a fair scheduler: a thread that can take its next step *)
(* takes it, and a thread that waits for the connection gets it if it is    *)
(* free again and again.  Nothing obliges the process to be restarted.      *)

SpecConcurrentFair ==
    /\ SpecConcurrent
    /\ \A t \in Threads :
          /\ SF_vars(Acquire(t))
          /\ WF_vars(Execute(t))
          /\ WF_vars(Return(t))
          /\ WF_vars(AddIdentityReturn(t))
          /\ WF_vars(AddIdentityRelock(t))

\* C21: every operation a thread has started eventually returns, its lock
\* released: a thread that is in an operation (waiting for the connection or
\* holding it) is eventually out of it again, add_identity with a non-empty
\* role list included.
C21_EveryOperationReturns ==
    \A t \in Threads : (call[t] # Idle) ~> (call[t] = Idle)

----------------------------------------------------------------------------
(* More properties of the stored health and of add_identity's steps *)

\* C22: update_instance_health(id, h) on a stored instance, its statement run
\* by SQLite, returns Ok and sets the stored health to h whatever it was before,
\* changing nothing else; get_all_instances and get_instances of the instance's
\* service then return that instance with health h.
C22_UpdateSetsCallerHealth ==
    [][\A id \in Uuids, h \in HealthStatus :
          (/\ last'.op = "update_instance_health" /\ last'.arg = <<id, h>>
           /\ UpdateInstanceHealth(id, h)
           /\ HasInstance(db, id)
           /\ ~last'.sqlerr)
              => LET row == CHOOSE r \in db.instances : r.id = UuidToString(id)
                 IN  /\ last'.res = Ok
                     /\ StoredHealth(db', id) = h
                     /\ db' = [db EXCEPT !.instances =
                                 (@ \ {row}) \cup {[row EXCEPT !.health = DebugHealth(h)]}]
                     /\ \A r \in get_all_instances(db', FALSE)
                                    \cup get_instances(db', row.service_code, FALSE) :
                           /\ r.res = Ok
                           /\ \E i \in DOMAIN r.val : r.val[i].id = id
                           /\ \A i \in DOMAIN r.val :
                                 r.val[i].id = id => r.val[i].health = h]_vars

\* a stored instance was reported Unhealthy and reads back Unhealthy
C22_Witness ==
    /\ last.op = "update_instance_health"
    /\ last.arg = <<"u1", "Unhealthy">>
    /\ last.hit /\ ~last.sqlerr
    /\ last.res = Ok
    /\ \A r \in get_all_instances(db, FALSE) :
          \E i \in DOMAIN r.val : r.val[i].id = "u1" /\ r.val[i].health = "Unhealthy"

\* the thread is in add_identity past the DELETE of the roles, with roles of
\* the call still to insert
PastDelete(t) ==
    /\ call[t].pc \in {"roles", "deadlock", "panic"}
    /\ call[t].identity.roles # << >>

\* C23: add_identity with a non-empty role list, once its upsert and its DELETE
\* have run, has the identity stored with zero roles, the roles of the call not
\* yet inserted; if the call is interrupted there (the process goes away, or the
\* call does not proceed), that is what the store is left holding.
C23_InterruptedAddIdentityLeavesNoRoles ==
    /\ [](\A t \in Threads :
             PastDelete(t)
                => /\ HasIdentity(db, call[t].identity.common_name)
                   /\ RolesOf(db, call[t].identity.common_name) = {})
    /\ [][\A t \in Threads :
             (PastDelete(t) /\ call'[t] = Idle)
                => /\ HasIdentity(db', call[t].identity.common_name)
                   /\ RolesOf(db', call[t].identity.common_name) = {}]_vars

\* add_identity of an identity with the role Viewer does not proceed: the
\* identity is stored and holds no role
C23_Witness ==
    /\ call["main"].pc = "deadlock"
    /\ call["main"].identity.roles = <<"Viewer">>
    /\ HasIdentity(db, call["main"].identity.common_name)
    /\ RolesOf(db, call["main"].identity.common_name) = {}

\* the process has gone away in the middle of add_identity and the database
\* is opened again: an identity is stored and no role at all
C23_WitnessReopened ==
    /\ last = Opened
    /\ call = AllIdle
    /\ lock = "free"
    /\ db.identities # {}
    /\ db.identity_roles = {}
    /\ db.services = {}

----------------------------------------------------------------------------
(* The order of the health worker's steps *)

\* the ids of the current cycle probed, and those whose write-back was made
ProbedIds == {p[1] : p \in worker.probed}
WrittenIds == {worker.written[i][1] : i \in DOMAIN worker.written}

\* C24: the worker is in at most one cycle and, in it, at one instance: the
\* instances probed and not yet written back are none while it probes or waits,
\* and the one at the head of its list while it writes; a cycle begins only
\* from the wait for the tick, the cycle before it (if the process has made
\* one) having made the write-back of every instance of its snapshot.
C24_CyclesDoNotOverlap ==
    /\ [](/\ worker.pc \in {"tick", "probe", "write"}
          /\ WrittenIds \subseteq ProbedIds /\ ProbedIds \subseteq worker.snapshot
          /\ worker.pc = "tick" => worker.instances = << >> /\ ProbedIds = WrittenIds
          /\ worker.pc = "probe" => worker.instances # << >> /\ ProbedIds = WrittenIds
          /\ worker.pc = "write"
                => /\ worker.instances # << >>
                   /\ ProbedIds \ WrittenIds = {Head(worker.instances).id})
    /\ [][worker'.cycle = worker.cycle + 1
             => /\ worker.pc = "tick"
                /\ worker.instances = << >>
                /\ WrittenIds = worker.snapshot
                /\ Len(worker.written) = Cardinality(worker.snapshot)]_vars

\* the second cycle of the process is at the write-back of the first of two
\* instances
C24_Witness ==
    /\ worker.cycle = 2
    /\ worker.pc = "write"
    /\ Len(worker.instances) = 2
    /\ Cardinality(ProbedIds) = 1 /\ WrittenIds = {}

\* The server under a fair scheduler: main goes on from where it stands, a main
\* thread that has panicked ends the process, and the worker task takes each
\* step of its loop that it can take.  Nothing obliges the process to be stopped
\* otherwise, nor started.
SpecMonitorFair ==
    /\ SpecMonitor
    /\ WF_vars(ServerSeedSkip)
    /\ WF_vars(ServerSeedAdmin)
    /\ WF_vars(AddIdentityRelock("main"))
    /\ WF_vars(call["main"].pc = "panic" /\ ServerStop)
    /\ WF_vars(WorkerSnapshot)
    /\ WF_vars(WorkerProbe)
    /\ WF_vars(WorkerWrite)

\* C25: while the server process lives, every instance stored is eventually
\* probed by the worker and has the write-back of a Healthy or Unhealthy result
\* made, unless the process ends or SQLite fails a snapshot of the worker
\* (stated for the moments from which the cycle counter of this model still
\* allows a new cycle).
C25_EveryInstanceEventuallyProbed ==
    \A id \in {"u1", "u2"} :
        (phase # "off" /\ HasInstance(db, id) /\ worker.cycle < MaxCycles)
            ~> (\/ phase = "off"
                \/ last.op = "worker" /\ last.res # Ok
                \/ \E i \in DOMAIN worker.written :
                      /\ worker.written[i][1] = id
                      /\ worker.written[i][2] \in {"Healthy", "Unhealthy"})

----------------------------------------------------------------------------
(* What the operations leave alone *)

\* a row of instances, its health column aside
WithoutHealth(row) == [row EXCEPT !.health = EmptyText]

\* database d2 is database d but for the health of the instance with this id
SameButHealthOf(d, d2, id) ==
    /\ d2.services = d.services
    /\ d2.identities = d.identities
    /\ d2.identity_roles = d.identity_roles
    /\ d2.foreign_keys = d.foreign_keys
    /\ {r.id : r \in d2.instances} = {r.id : r \in d.instances}
    /\ Cardinality(d2.instances) = Cardinality(d.instances)
    /\ {WithoutHealth(r) : r \in d2.instances} = {WithoutHealth(r) : r \in d.instances}
    /\ {r \in d2.instances : r.id # UuidToString(id)}
          = {r \in d.instances : r.id # UuidToString(id)}

\* C26: update_instance_health(id, h), called from outside or by the worker's
\* write-back, changes nothing but the health of the instance with that id:
\* that instance's other columns, every other instance, the services and the
\* identities are as before, and no instance is created.
C26_UpdateChangesHealthOnly ==
    [][/\ \A h \in HealthStatus :
             (/\ last'.op = "update_instance_health" /\ last'.arg = <<"u1", h>>
              /\ UpdateInstanceHealth("u1", h))
                 => SameButHealthOf(db, db', "u1")
       /\ (worker.pc = "write" /\ WorkerWrite)
             => SameButHealthOf(db, db', Head(worker.instances).id)]_vars

\* the worker has written Healthy to the first of two instances; the other
\* is Unknown as it was
C26_Witness ==
    /\ worker.pc = "probe"
    /\ Len(worker.written) = 1
    /\ worker.written[1][2] = "Healthy"
    /\ worker.written[1][1] \notin worker.failed
    /\ StoredHealth(db, worker.written[1][1]) = "Healthy"
    /\ StoredHealth(db, Head(worker.instances).id) = "Unknown"

\* update_instance_health was called for an id that is not stored: no
\* instance is stored after it
C26_WitnessAbsent ==
    /\ last.op = "update_instance_health"
    /\ ~last.hit /\ ~last.sqlerr
    /\ db.instances = {}
    /\ db.services # {}

\* the codes of the services and the ids of the instances stored
StoredCodes(d) == {r.code : r \in d.services}
StoredIds(d) == {r.id : r \in d.instances}

\* C27: no step of a store operation, of the worker or of the server's start
\* and stop removes a service or an instance: the stored codes and the stored
\* ids only grow, and what get_service and get_all_instances could return
\* before the step they can return after it.
C27_NothingIsRemoved ==
    [][/\ StoredCodes(db) \subseteq StoredCodes(db')
       /\ StoredIds(db) \subseteq StoredIds(db')
       /\ \A code \in Codes :
             get_service(db, code, FALSE).res = Ok
                => get_service(db', code, FALSE).res = Ok
       /\ \A r \in get_all_instances(db, FALSE), r2 \in get_all_instances(db', FALSE) :
             {x.id : x \in Range(r.val)} \subseteq {x.id : x \in Range(r2.val)}]_vars

\* an instance was registered again after a cycle of the worker, a second
\* instance and the service being stored: all are still there
C27_Witness ==
    /\ last.op = "add_instance" /\ last.hit /\ last.res = Ok
    /\ worker.cycle >= 1
    /\ StoredIds(db) = {UuidToString("u1"), UuidToString("u2")}
    /\ StoredCodes(db) = {"auth-svc"}

\* C28: add_service with a code already stored changes that service's row
\* only: the instances (those of that code included), the other services, the
\* identities and the roles are as before, and get_instances of the code has
\* the same possible returns before and after.
C28_ReRegisterKeepsInstances ==
    [][\A s \in ServiceInputs :
          (/\ last'.op = "add_service" /\ last'.arg = s
           /\ AddService(s)
           /\ HasService(db, s.code))
              => /\ db'.instances = db.instances
                 /\ db'.identities = db.identities
                 /\ db'.identity_roles = db.identity_roles
                 /\ {r \in db'.services : r.code # s.code}
                       = {r \in db.services : r.code # s.code}
                 /\ {<<r.res, r.val>> : r \in get_instances(db', s.code, FALSE)}
                       = {<<r.res, r.val>> : r \in get_instances(db, s.code, FALSE)}]_vars

\* a service with an instance was registered again with other fields, another
\* service being stored: its instance is still returned
C28_Witness ==
    /\ last.op = "add_service" /\ last.hit /\ last.res = Ok
    /\ last.arg.code = "auth-svc" /\ last.arg.name = "Auth v2"
    /\ HasService(db, "pay-svc")
    /\ \A r \in get_instances(db, "auth-svc", FALSE) : Len(r.val) = 1

----------------------------------------------------------------------------
(* Instances of every protocol and health, stored and read back *)

Https == <<"Https">>
Grpc == <<"Grpc">>
Udp == <<"Udp">>
SimpleProtocols == {Http, Https, Tcp, Grpc, Udp}

Addr2 == [ip |-> "10.0.0.2", port |-> "8080"]

\* ServiceInstance::set_health
set_health(instance, health) == [instance EXCEPT !.health = health]

\* instances of the service auth-svc: one of every protocol (a Custom one with
\* the others) and every health, and a second one beside it
RoundTripInstances ==
    {set_health(NewInstance("u1", "auth-svc", Addr1, p, RuntimeCustom(<<"bare-metal">>), 0), h) :
        p \in SimpleProtocols \cup {ProtocolCustom(<<"quic">>)},
        h \in HealthStatus}
    \cup {set_health(NewInstance("u2", "auth-svc", Addr2, p, RuntimeCustom(<<"bare-metal">>), 0),
                     "Healthy") :
            p \in {Http, Udp}}

NextRoundTrip ==
    \/ AddService(AuthService)
    \/ \E instance \in RoundTripInstances : AddInstance(instance)
    \/ \E code \in Codes : GetInstances(code)
    \/ GetAllInstances

SpecRoundTrip == Init /\ [][NextRoundTrip]_vars

\* C29: after add_instance has stored an instance whose protocol is Http,
\* Https, Tcp, Grpc or Udp, whatever its health, get_all_instances and
\* get_instances of its service code return exactly one instance with its id,
\* and that one has its service code, address, protocol and health.
C29_SimpleVariantsRoundTrip ==
    [][(/\ last'.op = "add_instance"
        /\ last'.res = Ok
        /\ last'.arg.protocol \in SimpleProtocols
        /\ AddInstance(last'.arg))
           => LET instance == last'.arg
              IN  \A r \in get_all_instances(db', FALSE)
                              \cup get_instances(db', instance.service_name, FALSE) :
                     /\ r.res = Ok
                     /\ Cardinality({i \in DOMAIN r.val : r.val[i].id = instance.id}) = 1
                     /\ \A i \in DOMAIN r.val :
                           r.val[i].id = instance.id
                              => /\ r.val[i].service_name = instance.service_name
                                 /\ r.val[i].address = instance.address
                                 /\ r.val[i].protocol = instance.protocol
                                 /\ r.val[i].health = instance.health]_vars

\* get_all_instances returned a Grpc instance that is Unhealthy and a Udp
\* instance that is Healthy, as they were stored
C29_Witness ==
    /\ last.op = "get_all_instances" /\ last.res = Ok
    /\ Len(last.val) = 2
    /\ \E i, j \in DOMAIN last.val :
          /\ last.val[i].id = "u1" /\ last.val[i].address = Addr1
          /\ last.val[i].protocol = Grpc /\ last.val[i].health = "Unhealthy"
          /\ last.val[j].id = "u2" /\ last.val[j].address = Addr2
          /\ last.val[j].protocol = Udp /\ last.val[j].health = "Healthy"

----------------------------------------------------------------------------
(* The administrator seeded at start-up *)

\* C30: a server that is up has the identity admin.logpose.local stored with
\* the role Admin, start-up having created it so if it was absent; and a
\* start-up that finds the identity stored goes on to serve leaving the
\* database as it is.
C30_SeedingIsIdempotent ==
    /\ [](phase = "up"
             => HasIdentity(db, AdminCn) /\ "Admin" \in RolesOf(db, AdminCn))
    /\ [][(phase = "starting" /\ phase' = "up") => db' = db]_vars

----------------------------------------------------------------------------
(* What the look-ups return *)

\* C31: get_service(code) on a stored service, its query run by SQLite,
\* returns Ok with a Service of that code whose instances field is empty,
\* however many instances with that service_code are stored.
C31_GetServiceInstancesEmpty ==
    [][\A code \in Codes :
          (/\ last'.op = "get_service" /\ last'.arg = code
           /\ GetService(code)
           /\ HasService(db, code)
           /\ ~last'.sqlerr)
              => /\ last'.res = Ok
                 /\ last'.val.code = code
                 /\ last'.val.instances = << >>]_vars

\* get_service returned a service that has two instances stored
C31_Witness ==
    /\ last.op = "get_service" /\ ~last.sqlerr /\ last.res = Ok
    /\ Cardinality(RowsOfCode(db, last.arg)) = 2
    /\ last.val.instances = << >>

\* C32: assigning a role does not create an identity.  After
\* add_role_to_identity(cn, r) for a common_name with no stored identity,
\* whether the assignment reported Ok (foreign keys not enforced) or an error,
\* the identities table is what it was, get_identity(cn) fails with
\* ServiceNotFound and POST /api/auth/token for cn answers 401.
C32_RoleAssignmentCreatesNoIdentity ==
    [][\A cn \in CommonNames :
          (/\ last'.op = "add_role_to_identity" /\ last'.arg[1] = cn
           /\ AddRoleToIdentity(cn, last'.arg[2])
           /\ ~HasIdentity(db, cn))
              => /\ db'.identities = db.identities
                 /\ \A sqlerr \in BOOLEAN :
                       /\ \A r \in get_identity(db', cn, sqlerr) :
                             r.res = ServiceNotFound /\ r.val = None
                       /\ \A a \in get_token(db', [common_name |-> cn], sqlerr) :
                             a.status = 401]_vars

\* a role was assigned with success to a common_name that has no identity
C32_Witness ==
    /\ last.op = "add_role_to_identity" /\ last.res = Ok
    /\ ~HasIdentity(db, last.arg[1])
    /\ HasRole(db, last.arg[1], last.arg[2])

\* the assignment for a common_name without identity was refused
C32_WitnessRefused ==
    /\ last.op = "add_role_to_identity" /\ last.res = DuplicateInstance
    /\ ~last.sqlerr
    /\ ~HasIdentity(db, last.arg[1])
    /\ ~HasRole(db, last.arg[1], last.arg[2])

====
